---- MODULE Spec2Model ----
(***************************************************************************)
(* youtube-autopilot-hub: the batch uploader (YouTubeUploader and main of  *)
(* the Python script shipped in utils/pythonCode) and the job record the   *)
(* service keeps for each video.                                           *)
(*                                                                         *)
(* Two subsystems share this module:                                       *)
(*   Spec      one run of main() after the uploader has been constructed:  *)
(*             the loop over the videos, upload_video's chunk loop,        *)
(*             upload_caption, and the job record of each video;           *)
(*   AuthSpec  YouTubeUploader._authenticate, run by callers that share    *)
(*             the per-profile token files.                                *)
(* Byte counts are scaled: ChunkSize stands for the script's 1 MiB chunk.  *)
(***************************************************************************)
EXTENDS Integers, Sequences, FiniteSets

\* ---------------------------------------------------------------- bounds
MaxJobs == 2          \* videos found in the target directory
MaxBytes == 5         \* largest file size, in scaled bytes
ChunkSize == 2        \* chunksize of MediaFileUpload, scaled
MaxFiles == 2         \* files in the dashboard's queue
MaxUploads == 3       \* job ids the backend hands out to the dashboard
IntervalMs == 1000    \* pollUploadStatus: default intervalMs

Jobs == 1..MaxJobs
Files == 1..MaxFiles
UploadIds == 1..MaxUploads
NoJob == 0
NoRange == <<>>
NoId == 0

VARIABLES
  pc,                 \* where the run of main() is
  cur,                \* index of the video the for-loop is at
  size,               \* size[j]: file_size of video j
  hasSub,             \* hasSub[j]: a matching .srt/.vtt exists
  resumable_progress, \* the request object's acknowledged byte count
  previous_progress,  \* upload_video's previous_progress (what pbar shows)
  req,                \* byte range of the chunk request in flight, or NoRange
  job,                \* job[j]: the job record of video j
  upResult,           \* outcome of video j's upload session, "none" while open
  capResult,          \* outcome of video j's caption request, "none" if not made
  lastFail,           \* range of the last chunk request if it failed with 5xx
  progressLog,        \* progressLog[j]: the byte counts the progress bar was given
  cancelFlag          \* cancelFlag[j]: the job's cancellation flag

VARIABLES
  tokenFile,          \* tokenFile[p]: content of token_<p>.pickle, NoCreds if missing
  secretsExist,       \* client_secrets.json exists
  user_profile,       \* user_profile[c]: the profile caller c authenticates
  apc,                \* apc[c]: where caller c is in _authenticate
  creds,              \* creds[c]: the local variable creds
  loaded,             \* loaded[c]: what c read from the token file
  result,             \* result[c]: what _authenticate returned to c
  refreshes,          \* refreshes[c]: creds.refresh calls c made
  flows,              \* flows[c]: consent flows c ran
  saves,              \* saves[c]: writes of the token file c made
  nextToken           \* the next access token the identity provider issues

authVars == <<tokenFile, secretsExist, user_profile, apc, creds, loaded, result,
              refreshes, flows, saves, nextToken>>

uploadVars == <<pc, cur, size, hasSub, resumable_progress, previous_progress,
                req, job, upResult, capResult, lastFail, progressLog,
                cancelFlag>>

VARIABLES
  authenticated,      \* authStatus?.authenticated
  isProcessing,       \* the dashboard's isProcessing state
  files,              \* files[f]: the dashboard's UploadFile f
  closure,            \* the files array the running startUpload closed over
  cpc,                \* where startUpload is
  ci,                 \* startUpload's loop index i (from 1)
  awaiting,           \* the job whose poll promise startUpload awaits
  nextJob,            \* the next job_id the backend answers uploadVideo with
  poller,             \* poller[k]: the pollUploadStatus instance of job k
  runLog              \* the files the current startUpload run has submitted

clientVars == <<authenticated, isProcessing, files, closure, cpc, ci, awaiting,
                nextJob, poller, runLog>>

\* ------------------------------------------------------------ job record
QuotaMsg == "Quota exceeded."
LoginRequiredMsg == "please log in"
HttpMsg == "HTTP Error"
UnexpectedMsg == "Unexpected error"
NoIdMsg == "Upload failed, no ID returned."

NewJob ==
  [status |-> "PENDING", error |-> "", videoId |-> NoId,
   subtitleUploaded |-> FALSE, present |-> TRUE]

\* PENDING -> UPLOADING on dispatch.
Dispatched(r) == [r EXCEPT !.status = "UPLOADING"]

\* videoId / videoUrl are recorded when the video upload returns an id.
VideoUploaded(r, id) == [r EXCEPT !.videoId = id]

\* UPLOADING -> COMPLETED; the caption outcome sets subtitleUploaded.
Completed(r, sub) == [r EXCEPT !.status = "COMPLETED", !.subtitleUploaded = sub]

\* UPLOADING -> ERROR with the failure's message.
Failed(r, msg) == [r EXCEPT !.status = "ERROR", !.error = msg]

\* videoProgress: integer percent derived from the progress callback.
VideoProgress(j) == (previous_progress[j] * 100) \div size[j]

Min(a, b) == IF a < b THEN a ELSE b

\* The remote id of video j (YouTube assigns one id per inserted video).
RemoteId(j) == 100 + j

\* ------------------------------------------------------------------ Init
UploadInit ==
  /\ pc = "loop"
  /\ cur = 1
  /\ size \in [Jobs -> 1..MaxBytes]
  /\ hasSub \in [Jobs -> BOOLEAN]
  /\ resumable_progress = [j \in Jobs |-> 0]
  /\ previous_progress = [j \in Jobs |-> 0]
  /\ req = [j \in Jobs |-> NoRange]
  /\ job = [j \in Jobs |-> NewJob]
  /\ upResult = [j \in Jobs |-> "none"]
  /\ capResult = [j \in Jobs |-> "none"]
  /\ lastFail = [j \in Jobs |-> NoRange]
  /\ progressLog = [j \in Jobs |-> <<>>]
  /\ cancelFlag = [j \in Jobs |-> FALSE]

\* ------------------------------------------------------- main / upload_video
\* Mutant of StartVideo: previous_progress is one counter shared by all videos,
\* reset when a video starts.
StartVideoSharedProgress ==
  /\ pc = "loop"
  /\ cur <= MaxJobs
  /\ job' = [job EXCEPT ![cur] = Dispatched(@)]
  /\ previous_progress' = [j \in Jobs |-> 0]
  /\ resumable_progress' = [resumable_progress EXCEPT ![cur] = 0]
  /\ pc' = "send"
  /\ UNCHANGED <<cur, size, hasSub, req, upResult, capResult, lastFail,
                 authVars, clientVars, progressLog, cancelFlag>>

\* for video in video_files: upload_video(video) up to the while loop.
StartVideo ==
  /\ pc = "loop"
  /\ cur <= MaxJobs
  /\ job' = [job EXCEPT ![cur] = Dispatched(@)]
  /\ previous_progress' = [previous_progress EXCEPT ![cur] = 0]
  /\ resumable_progress' = [resumable_progress EXCEPT ![cur] = 0]
  /\ pc' = "send"
  /\ UNCHANGED <<cur, size, hasSub, req, upResult, capResult, lastFail,
                 authVars, clientVars, progressLog, cancelFlag>>

\* The for-loop is exhausted: main returns.
MainReturns ==
  /\ pc = "loop"
  /\ cur > MaxJobs
  /\ pc' = "finished"
  /\ UNCHANGED <<cur, size, hasSub, resumable_progress, previous_progress,
                 req, job, upResult, capResult, lastFail,
                 authVars, clientVars, progressLog, cancelFlag>>

\* The byte range request.next_chunk() sends: the next chunksize bytes, or the
\* remainder, starting at the acknowledged offset.
NextRange(j) ==
  <<resumable_progress[j], Min(resumable_progress[j] + ChunkSize, size[j])>>

\* request.next_chunk(): the chunk request goes out.
SendChunk ==
  /\ pc = "send"
  /\ req' = [req EXCEPT ![cur] = NextRange(cur)]
  /\ pc' = "await"
  /\ UNCHANGED <<cur, size, hasSub, resumable_progress, previous_progress,
                 job, upResult, capResult, lastFail,
                 authVars, clientVars, progressLog, cancelFlag>>

\* next_chunk returns (status, None): the chunk is acknowledged, more expected;
\* "if status:" updates the progress bar.
ChunkAccepted ==
  /\ pc = "await"
  /\ req[cur][2] < size[cur]
  /\ resumable_progress' = [resumable_progress EXCEPT ![cur] = req[cur][2]]
  /\ previous_progress' = [previous_progress EXCEPT ![cur] = req[cur][2]]
  /\ progressLog' = [progressLog EXCEPT ![cur] = Append(@, req[cur][2])]
  /\ req' = [req EXCEPT ![cur] = NoRange]
  /\ lastFail' = [lastFail EXCEPT ![cur] = NoRange]
  /\ pc' = "send"
  /\ UNCHANGED <<cur, size, hasSub, job, upResult, capResult,
                 authVars, clientVars, cancelFlag>>

\* Mutant of ReturnedId: an id is returned whatever the response holds.
ReturnedIdAlways(hasId, j) == RemoteId(j)

\* Lines 146-152: the id upload_video returns for a final response, NoId
\* standing for None ("Upload failed, no ID returned.").
ReturnedId(hasId, j) == IF hasId THEN RemoteId(j) ELSE NoId

\* Mutant of ShouldUploadCaption: the "if video_id:" test is missing.
ShouldUploadCaptionAlways(video_id, j) == hasSub[j]

\* main, lines 210-216: "if video_id:" and a subtitle with the video's stem
\* exists: upload_caption is called.
ShouldUploadCaption(video_id, j) == video_id # NoId /\ hasSub[j]

\* next_chunk returns (None, response): the remote reports completion. status
\* is None, so the progress bar is not touched. upload_video returns the id (or
\* None) and main goes on to the caption or to the next video.
ChunkFinal(hasId) ==
  /\ pc = "await"
  /\ req[cur][2] = size[cur]
  /\ LET video_id == ReturnedId(hasId, cur)
         uploaded == IF video_id # NoId
                     THEN VideoUploaded(job[cur], video_id)
                     ELSE Failed(job[cur], NoIdMsg)
     IN  IF ShouldUploadCaption(video_id, cur)
         THEN /\ job' = [job EXCEPT ![cur] = uploaded]
              /\ pc' = "caption"
              /\ cur' = cur
         ELSE /\ job' = [job EXCEPT ![cur] =
                           IF video_id # NoId THEN Completed(uploaded, FALSE)
                                              ELSE uploaded]
              /\ pc' = "loop"
              /\ cur' = cur + 1
  /\ upResult' = [upResult EXCEPT ![cur] = IF hasId THEN "id" ELSE "noid"]
  /\ req' = [req EXCEPT ![cur] = NoRange]
  /\ lastFail' = [lastFail EXCEPT ![cur] = NoRange]
  /\ UNCHANGED <<size, hasSub, resumable_progress, previous_progress, capResult,
                 authVars, clientVars, progressLog, cancelFlag>>

\* Mutant of QuotaError: the 403 is logged and recorded, the loop goes on.
QuotaErrorRetry ==
  /\ pc = "await"
  /\ job' = [job EXCEPT ![cur] = Failed(@, QuotaMsg)]
  /\ upResult' = [upResult EXCEPT ![cur] = "quota"]
  /\ req' = [req EXCEPT ![cur] = NoRange]
  /\ lastFail' = [lastFail EXCEPT ![cur] = NoRange]
  /\ pc' = "send"
  /\ UNCHANGED <<cur, size, hasSub, resumable_progress, previous_progress,
                 capResult,
                 authVars, clientVars, progressLog, cancelFlag>>

\* except HttpError, status 403: "[ERROR] Quota exceeded.", sys.exit(1).
QuotaError ==
  /\ pc = "await"
  /\ job' = [job EXCEPT ![cur] = Failed(@, QuotaMsg)]
  /\ upResult' = [upResult EXCEPT ![cur] = "quota"]
  /\ req' = [req EXCEPT ![cur] = NoRange]
  /\ lastFail' = [lastFail EXCEPT ![cur] = NoRange]
  /\ pc' = "exited"
  /\ UNCHANGED <<cur, size, hasSub, resumable_progress, previous_progress,
                 capResult,
                 authVars, clientVars, progressLog, cancelFlag>>

\* Mutant of TransientError: the retried failure is written to the job.
TransientErrorRecorded ==
  /\ pc = "await"
  /\ job' = [job EXCEPT ![cur].error = HttpMsg]
  /\ lastFail' = [lastFail EXCEPT ![cur] = req[cur]]
  /\ req' = [req EXCEPT ![cur] = NoRange]
  /\ pc' = "send"
  /\ UNCHANGED <<cur, size, hasSub, resumable_progress, previous_progress,
                 upResult, capResult,
                 authVars, clientVars, progressLog, cancelFlag>>

\* Mutant of TransientError: the retry starts the progress bar over.
TransientErrorReset ==
  /\ pc = "await"
  /\ previous_progress' = [previous_progress EXCEPT ![cur] = 0]
  /\ lastFail' = [lastFail EXCEPT ![cur] = req[cur]]
  /\ req' = [req EXCEPT ![cur] = NoRange]
  /\ pc' = "send"
  /\ UNCHANGED <<cur, size, hasSub, resumable_progress, job, upResult,
                 capResult,
                 authVars, clientVars, progressLog, cancelFlag>>

\* Mutant of TransientError: the failed chunk is counted as sent.
TransientErrorSkip ==
  /\ pc = "await"
  /\ resumable_progress' = [resumable_progress EXCEPT ![cur] = req[cur][2]]
  /\ lastFail' = [lastFail EXCEPT ![cur] = req[cur]]
  /\ req' = [req EXCEPT ![cur] = NoRange]
  /\ pc' = "send"
  /\ UNCHANGED <<cur, size, hasSub, previous_progress, job, upResult,
                 capResult,
                 authVars, clientVars, progressLog, cancelFlag>>

\* Mutant of TransientError: the failed chunk is reported as progress.
TransientErrorCounted ==
  /\ pc = "await"
  /\ resumable_progress' = [resumable_progress EXCEPT ![cur] = req[cur][2]]
  /\ previous_progress' = [previous_progress EXCEPT ![cur] = req[cur][2]]
  /\ lastFail' = [lastFail EXCEPT ![cur] = req[cur]]
  /\ req' = [req EXCEPT ![cur] = NoRange]
  /\ pc' = "send"
  /\ UNCHANGED <<cur, size, hasSub, job, upResult, capResult,
                 authVars, clientVars, progressLog, cancelFlag>>

\* except HttpError, status in [500, 502, 503, 504]: "retrying chunk...",
\* continue: the while loop calls next_chunk again.
TransientError ==
  /\ pc = "await"
  /\ lastFail' = [lastFail EXCEPT ![cur] = req[cur]]
  /\ req' = [req EXCEPT ![cur] = NoRange]
  /\ pc' = "send"
  /\ UNCHANGED <<cur, size, hasSub, resumable_progress, previous_progress,
                 job, upResult, capResult,
                 authVars, clientVars, progressLog, cancelFlag>>

\* Mutant of OtherHttpError: the failure is logged and recorded, then the loop
\* goes on like after a 5xx.
OtherHttpErrorRetried ==
  /\ pc = "await"
  /\ job' = [job EXCEPT ![cur] = Failed(@, HttpMsg)]
  /\ upResult' = [upResult EXCEPT ![cur] = "remote"]
  /\ req' = [req EXCEPT ![cur] = NoRange]
  /\ lastFail' = [lastFail EXCEPT ![cur] = NoRange]
  /\ pc' = "send"
  /\ UNCHANGED <<cur, size, hasSub, resumable_progress, previous_progress,
                 capResult,
                 authVars, clientVars, progressLog, cancelFlag>>

\* except HttpError, any other status: logged and re-raised; nothing in main
\* catches it, the run dies with the exception.
OtherHttpError ==
  /\ pc = "await"
  /\ job' = [job EXCEPT ![cur] = Failed(@, HttpMsg)]
  /\ upResult' = [upResult EXCEPT ![cur] = "remote"]
  /\ req' = [req EXCEPT ![cur] = NoRange]
  /\ lastFail' = [lastFail EXCEPT ![cur] = NoRange]
  /\ pc' = "crashed"
  /\ UNCHANGED <<cur, size, hasSub, resumable_progress, previous_progress,
                 capResult,
                 authVars, clientVars, progressLog, cancelFlag>>

\* Mutant of UnexpectedError: the error is logged, sys.exit is missing.
UnexpectedErrorNoExit ==
  /\ pc = "await"
  /\ job' = [job EXCEPT ![cur] = Failed(@, UnexpectedMsg)]
  /\ upResult' = [upResult EXCEPT ![cur] = "local"]
  /\ req' = [req EXCEPT ![cur] = NoRange]
  /\ lastFail' = [lastFail EXCEPT ![cur] = NoRange]
  /\ pc' = "send"
  /\ UNCHANGED <<cur, size, hasSub, resumable_progress, previous_progress,
                 capResult,
                 authVars, clientVars, progressLog, cancelFlag>>

\* except Exception: "[ERROR] Unexpected error", sys.exit(1).
UnexpectedError ==
  /\ pc = "await"
  /\ job' = [job EXCEPT ![cur] = Failed(@, UnexpectedMsg)]
  /\ upResult' = [upResult EXCEPT ![cur] = "local"]
  /\ req' = [req EXCEPT ![cur] = NoRange]
  /\ lastFail' = [lastFail EXCEPT ![cur] = NoRange]
  /\ pc' = "exited"
  /\ UNCHANGED <<cur, size, hasSub, resumable_progress, previous_progress,
                 capResult,
                 authVars, clientVars, progressLog, cancelFlag>>

\* ----------------------------------------------------------- upload_caption
\* captions().insert(...).execute() succeeds: "[SUCCESS] Subtitle ... attached".
CaptionOk ==
  /\ pc = "caption"
  /\ capResult' = [capResult EXCEPT ![cur] = "ok"]
  /\ job' = [job EXCEPT ![cur] = Completed(@, TRUE)]
  /\ pc' = "loop"
  /\ cur' = cur + 1
  /\ UNCHANGED <<size, hasSub, resumable_progress, previous_progress, req,
                 upResult, lastFail,
                 authVars, clientVars, progressLog, cancelFlag>>

\* Mutant of CaptionHttpError: after a failed caption the video is sent again.
CaptionHttpErrorReupload ==
  /\ pc = "caption"
  /\ capResult' = [capResult EXCEPT ![cur] = "http"]
  /\ resumable_progress' = [resumable_progress EXCEPT ![cur] = 0]
  /\ pc' = "send"
  /\ UNCHANGED <<cur, size, hasSub, previous_progress, req, job, upResult,
                 lastFail, authVars, clientVars, progressLog, cancelFlag>>

\* except HttpError: "[ERROR] Failed to upload caption", upload_caption returns.
CaptionHttpError ==
  /\ pc = "caption"
  /\ capResult' = [capResult EXCEPT ![cur] = "http"]
  /\ job' = [job EXCEPT ![cur] = Completed(@, FALSE)]
  /\ pc' = "loop"
  /\ cur' = cur + 1
  /\ UNCHANGED <<size, hasSub, resumable_progress, previous_progress, req,
                 upResult, lastFail,
                 authVars, clientVars, progressLog, cancelFlag>>

\* The caption request fails with anything that is not an HttpError (the
\* transport below HTTP, reading the caption file): upload_caption has no
\* handler for it and neither has main, the run dies with the exception.
CaptionOtherError ==
  /\ pc = "caption"
  /\ capResult' = [capResult EXCEPT ![cur] = "exc"]
  /\ job' = [job EXCEPT ![cur] = Failed(@, UnexpectedMsg)]
  /\ pc' = "crashed"
  /\ UNCHANGED <<cur, size, hasSub, resumable_progress, previous_progress, req,
                 upResult, lastFail,
                 authVars, clientVars, progressLog, cancelFlag>>

\* ------------------------------------------------------------- job control
Terminal(r) == r.status \in {"COMPLETED", "ERROR"}

\* videoUrl: set together with videoId, the URL of that video.
VideoUrl(id) == IF id = NoId THEN <<>> ELSE <<"url", id>>

\* GET /upload/status/{job_id}: the UploadJob fields that change during a job.
Snapshot(j) ==
  [status |-> job[j].status, videoProgress |-> VideoProgress(j),
   videoId |-> job[j].videoId, videoUrl |-> VideoUrl(job[j].videoId),
   subtitleUploaded |-> job[j].subtitleUploaded,
   completed |-> job[j].status = "COMPLETED",
   error |-> job[j].error]

\* DELETE /upload/job/{job_id} of a terminal job: the record is removed.
DeleteJob(j) ==
  /\ job[j].present
  /\ Terminal(job[j])
  /\ job' = [job EXCEPT ![j].present = FALSE]
  /\ UNCHANGED <<pc, cur, size, hasSub, resumable_progress, previous_progress,
                 req, upResult, capResult, lastFail,
                 authVars, clientVars, progressLog, cancelFlag>>

\* DELETE /upload/job/{job_id} of a job that is still UPLOADING: the job's
\* cancellation flag is set and the record is removed.
DeleteUploading(j) ==
  /\ job[j].present
  /\ job[j].status = "UPLOADING"
  /\ cancelFlag' = [cancelFlag EXCEPT ![j] = TRUE]
  /\ job' = [job EXCEPT ![j].present = FALSE]
  /\ UNCHANGED <<pc, cur, size, hasSub, resumable_progress, previous_progress,
                 req, upResult, capResult, lastFail, progressLog, authVars, clientVars>>

\* The same delete, arriving once the job's video upload has returned its id
\* (the job is UPLOADING until its caption is settled).
DeleteAfterUpload(j) ==
  /\ upResult[j] = "id"
  /\ DeleteUploading(j)

UploadNext ==
  \/ StartVideo
  \/ MainReturns
  \/ SendChunk
  \/ ChunkAccepted
  \/ \E hasId \in BOOLEAN : ChunkFinal(hasId)
  \/ QuotaError
  \/ TransientError
  \/ OtherHttpError
  \/ UnexpectedError
  \/ CaptionOk
  \/ CaptionHttpError
  \/ CaptionOtherError
  \/ \E j \in Jobs : DeleteJob(j)

\* ------------------------------------------------------------ _authenticate
Profiles == {"default", "gaming"}
Callers == {"c1", "c2"}

NoCreds == [exists |-> FALSE, token |-> 0, expired |-> FALSE,
            refresh_token |-> FALSE]

\* What a token file can hold: token 0 stands for a credential without an
\* access token.
StoredCreds ==
  {NoCreds} \cup
  {[exists |-> TRUE, token |-> t, expired |-> e, refresh_token |-> r] :
     t \in {0, 1}, e \in BOOLEAN, r \in BOOLEAN}

\* google.oauth2 Credentials.valid: a token is held and it has not expired.
Valid(cr) == cr.token # 0 /\ ~cr.expired

\* Mutant of AuthBranch: a credential with a refresh token is always refreshed.
AuthBranchEager(cr) ==
  IF cr.exists /\ cr.refresh_token THEN "refresh"
  ELSE IF cr.exists /\ Valid(cr) THEN "return"
  ELSE "flow"

\* Lines 66-70: "if not creds or not creds.valid" and, inside it,
\* "if creds and creds.expired and creds.refresh_token".
AuthBranch(cr) ==
  IF cr.exists /\ Valid(cr) THEN "return"
  ELSE IF cr.exists /\ cr.expired /\ cr.refresh_token THEN "refresh"
  ELSE "flow"

AuthInit ==
  /\ tokenFile \in [Profiles -> StoredCreds]
  /\ secretsExist \in BOOLEAN
  /\ user_profile \in [Callers -> Profiles]
  /\ apc = [c \in Callers |-> "start"]
  /\ creds = [c \in Callers |-> NoCreds]
  /\ loaded = [c \in Callers |-> NoCreds]
  /\ result = [c \in Callers |-> NoCreds]
  /\ refreshes = [c \in Callers |-> 0]
  /\ flows = [c \in Callers |-> 0]
  /\ saves = [c \in Callers |-> 0]
  /\ nextToken = 2

\* Lines 56-66 and 84: the token file is read if it exists; a valid credential
\* is returned as it is.
LoadToken(c) ==
  /\ apc[c] = "start"
  /\ LET cr == tokenFile[user_profile[c]] IN
       /\ creds' = [creds EXCEPT ![c] = cr]
       /\ loaded' = [loaded EXCEPT ![c] = cr]
       /\ apc' = [apc EXCEPT ![c] =
                    IF AuthBranch(cr) = "return" THEN "done" ELSE AuthBranch(cr)]
       /\ result' = [result EXCEPT ![c] =
                       IF AuthBranch(cr) = "return" THEN cr ELSE @]
  /\ UNCHANGED <<tokenFile, secretsExist, user_profile, refreshes, flows, saves,
                 nextToken,
                 uploadVars, clientVars>>

\* creds.refresh(Request()) succeeds: a new access token.
RefreshOk(c) ==
  /\ apc[c] = "refresh"
  /\ creds' = [creds EXCEPT ![c] = [@ EXCEPT !.token = nextToken,
                                             !.expired = FALSE]]
  /\ nextToken' = nextToken + 1
  /\ refreshes' = [refreshes EXCEPT ![c] = @ + 1]
  /\ apc' = [apc EXCEPT ![c] = "save"]
  /\ UNCHANGED <<tokenFile, secretsExist, user_profile, loaded, result, flows,
                 saves,
                 uploadVars, clientVars>>

\* creds.refresh(Request()) raises (revoked or invalid refresh token): nothing
\* catches it, the caller dies with the exception.
RefreshFails(c) ==
  /\ apc[c] = "refresh"
  /\ refreshes' = [refreshes EXCEPT ![c] = @ + 1]
  /\ apc' = [apc EXCEPT ![c] = "raised"]
  /\ UNCHANGED <<tokenFile, secretsExist, user_profile, creds, loaded, result,
                 flows, saves, nextToken,
                 uploadVars, clientVars>>

\* Lines 71-74: no client_secrets.json: the message is printed, sys.exit(1).
FlowNoSecrets(c) ==
  /\ apc[c] = "flow"
  /\ ~secretsExist
  /\ apc' = [apc EXCEPT ![c] = "exited"]
  /\ UNCHANGED <<tokenFile, secretsExist, user_profile, creds, loaded, result,
                 refreshes, flows, saves, nextToken,
                 uploadVars, clientVars>>

\* Lines 76-77: InstalledAppFlow...run_local_server returns a new credential.
FlowOk(c) ==
  /\ apc[c] = "flow"
  /\ secretsExist
  /\ creds' = [creds EXCEPT ![c] = [exists |-> TRUE, token |-> nextToken,
                                    expired |-> FALSE, refresh_token |-> TRUE]]
  /\ nextToken' = nextToken + 1
  /\ flows' = [flows EXCEPT ![c] = @ + 1]
  /\ apc' = [apc EXCEPT ![c] = "save"]
  /\ UNCHANGED <<tokenFile, secretsExist, user_profile, loaded, result,
                 refreshes, saves,
                 uploadVars, clientVars>>

\* run_local_server raises (consent denied, no browser): the caller dies.
FlowFails(c) ==
  /\ apc[c] = "flow"
  /\ secretsExist
  /\ flows' = [flows EXCEPT ![c] = @ + 1]
  /\ apc' = [apc EXCEPT ![c] = "raised"]
  /\ UNCHANGED <<tokenFile, secretsExist, user_profile, creds, loaded, result,
                 refreshes, saves, nextToken,
                 uploadVars, clientVars>>

\* Mutant of SaveToken: the credential is returned without being written.
SaveTokenSkipped(c) ==
  /\ apc[c] = "save"
  /\ result' = [result EXCEPT ![c] = creds[c]]
  /\ apc' = [apc EXCEPT ![c] = "done"]
  /\ UNCHANGED <<tokenFile, saves, secretsExist, user_profile, creds, loaded,
                 refreshes, flows, nextToken, uploadVars, clientVars>>

\* Lines 79-84: pickle.dump(creds, token); return creds.
SaveToken(c) ==
  /\ apc[c] = "save"
  /\ tokenFile' = [tokenFile EXCEPT ![user_profile[c]] = creds[c]]
  /\ saves' = [saves EXCEPT ![c] = @ + 1]
  /\ result' = [result EXCEPT ![c] = creds[c]]
  /\ apc' = [apc EXCEPT ![c] = "done"]
  /\ UNCHANGED <<secretsExist, user_profile, creds, loaded, refreshes, flows,
                 nextToken,
                 uploadVars, clientVars>>

\* POST /auth/logout?profile=P: the profile's persisted credential is removed.
Logout(p) ==
  /\ tokenFile[p].exists
  /\ tokenFile' = [tokenFile EXCEPT ![p] = NoCreds]
  /\ UNCHANGED <<secretsExist, user_profile, apc, creds, loaded, result,
                 refreshes, flows, saves, nextToken, uploadVars, clientVars>>

AuthNext ==
  \E c \in Callers :
    \/ LoadToken(c)
    \/ RefreshOk(c)
    \/ RefreshFails(c)
    \/ FlowNoSecrets(c)
    \/ FlowOk(c)
    \/ FlowFails(c)
    \/ SaveToken(c)

\* ---------------------------------------------- main: uploader construction
\* The caller that is main()'s "uploader = YouTubeUploader(args.user)".
MainCaller == "c1"

\* _authenticate returned: the constructor builds the service, main finds the
\* videos and reaches its loop.
MainConstructed ==
  /\ pc = "construct"
  /\ apc[MainCaller] = "done"
  /\ pc' = "loop"
  /\ UNCHANGED <<cur, size, hasSub, resumable_progress, previous_progress,
                 req, job, upResult, capResult, lastFail, progressLog,
                 cancelFlag, authVars, clientVars>>

\* _authenticate raised (refresh or consent flow): main has no handler, the
\* run dies with the exception before any video is looked at.
MainConstructRaises ==
  /\ pc = "construct"
  /\ apc[MainCaller] = "raised"
  /\ pc' = "crashed"
  /\ UNCHANGED <<cur, size, hasSub, resumable_progress, previous_progress,
                 req, job, upResult, capResult, lastFail, progressLog,
                 cancelFlag, authVars, clientVars>>

\* _authenticate called sys.exit(1) (no client_secrets.json).
MainConstructExits ==
  /\ pc = "construct"
  /\ apc[MainCaller] = "exited"
  /\ pc' = "exited"
  /\ UNCHANGED <<cur, size, hasSub, resumable_progress, previous_progress,
                 req, job, upResult, capResult, lastFail, progressLog,
                 cancelFlag, authVars, clientVars>>

\* ------------------------------------------------- dashboard: startUpload
\* processFiles: a file as it enters the queue. error "" stands for null;
\* inQueue tells whether the file is an element of the files array.
NewFile ==
  [status |-> "pending", progress |-> 0, jobId |-> NoJob, videoUrl |-> <<>>,
   error |-> "", inQueue |-> TRUE]

\* setFiles(prev => prev.map(f => f.id === file.id ? r : f)): the entry of a
\* file that is no longer in the array is not brought back.
MapFile(f, r) == IF files[f].inQueue THEN [files EXCEPT ![f] = r] ELSE files

\* pollUploadStatus has not been called for this job.
NoPoller ==
  [file |-> 0, active |-> FALSE, ppc |-> "off", delay |-> 0, updates |-> "none"]

\* What GET /upload/status/{job_id} can answer: a job that is running, one that
\* is completed (with its URL), one that failed (with its message).
StatusSnapshots ==
  { [completed |-> FALSE, error |-> "", video_progress |-> 50,
     video_url |-> <<>>],
    [completed |-> TRUE, error |-> "", video_progress |-> 100,
     video_url |-> <<"url">>],
    [completed |-> FALSE, error |-> QuotaMsg, video_progress |-> 50,
     video_url |-> <<>>] }

\* Mutant of ShouldStop: the poller never stops.
ShouldStopNever(s) == FALSE

\* pollUploadStatus: "if (job.completed || job.error)".
ShouldStop(s) == s.completed \/ s.error # ""

\* Mutant of Resolves: the promise is resolved by the first snapshot.
ResolvesAlways(s) == TRUE

\* startUpload's onUpdate: "if (job.completed) ... else if (job.error)".
Resolves(s) == s.completed \/ s.error # ""

\* startUpload's onUpdate: the file status shown for a snapshot.
FileStatus(s) ==
  IF s.completed THEN "completed" ELSE IF s.error # "" THEN "error"
  ELSE "uploading"

ClientInit ==
  /\ authenticated \in BOOLEAN
  /\ isProcessing = FALSE
  /\ files = [f \in Files |-> NewFile]
  /\ closure = [f \in Files |-> NewFile]
  /\ cpc = "idle"
  /\ ci = 1
  /\ awaiting = NoJob
  /\ nextJob = 1
  /\ poller = [k \in UploadIds |-> NoPoller]
  /\ runLog = <<>>

\* startUpload up to its loop; the button is disabled while isProcessing.
StartUpload ==
  /\ cpc = "idle"
  /\ ~isProcessing
  /\ authenticated
  /\ \E f \in Files : files[f].inQueue
  /\ nextJob + MaxFiles - 1 <= MaxUploads
  /\ isProcessing' = TRUE
  /\ closure' = files
  /\ ci' = 1
  /\ runLog' = <<>>
  /\ cpc' = "loop"
  /\ UNCHANGED <<authenticated, files, awaiting, nextJob, poller,
                 uploadVars, authVars>>

\* "if (file.status === 'completed') continue", on the closed-over array; a
\* file that was not in the array when the run started is not iterated.
LoopSkip ==
  /\ cpc = "loop"
  /\ ci \in Files
  /\ closure[ci].status = "completed" \/ ~closure[ci].inQueue
  /\ ci' = ci + 1
  /\ UNCHANGED <<runLog, authenticated, isProcessing, files, closure, cpc,
                 awaiting,
                 nextJob, poller, uploadVars, authVars>>

\* Mutant of LoopSubmit: the test for 'completed' is missing.
LoopSubmitAll ==
  /\ cpc = "loop"
  /\ ci \in Files
  /\ closure[ci].inQueue
  /\ files' = MapFile(ci, [files[ci] EXCEPT !.status = "uploading"])
  /\ runLog' = Append(runLog, ci)
  /\ cpc' = "submit"
  /\ UNCHANGED <<authenticated, isProcessing, closure, ci, awaiting, nextJob,
                 poller, uploadVars, authVars>>

\* The file is marked 'uploading' and api.uploadVideo is called.
LoopSubmit ==
  /\ cpc = "loop"
  /\ ci \in Files
  /\ closure[ci].inQueue
  /\ closure[ci].status # "completed"
  /\ files' = MapFile(ci, [files[ci] EXCEPT !.status = "uploading"])
  /\ runLog' = Append(runLog, ci)
  /\ cpc' = "submit"
  /\ UNCHANGED <<authenticated, isProcessing, closure, ci, awaiting, nextJob,
                 poller, uploadVars, authVars>>

\* uploadVideo answers with a job_id: the id is stored, pollUploadStatus is
\* called and its first poll() sends the first status request.
UploadAccepted ==
  /\ cpc = "submit"
  /\ files' = MapFile(ci, [files[ci] EXCEPT !.jobId = nextJob])
  /\ poller' = [poller EXCEPT ![nextJob] =
                  [file |-> ci, active |-> TRUE, ppc |-> "inflight",
                   delay |-> 0, updates |-> "none"]]
  /\ awaiting' = nextJob
  /\ nextJob' = nextJob + 1
  /\ cpc' = "polling"
  /\ UNCHANGED <<runLog, authenticated, isProcessing, closure, ci,
                 uploadVars, authVars>>

\* uploadVideo throws: the catch marks the file 'error', the loop goes on.
UploadRejected ==
  /\ cpc = "submit"
  /\ files' = MapFile(ci, [files[ci] EXCEPT !.status = "error",
                                             !.error = HttpMsg])
  /\ ci' = ci + 1
  /\ cpc' = "loop"
  /\ UNCHANGED <<runLog, authenticated, isProcessing, closure, awaiting, nextJob,
                 poller, uploadVars, authVars>>

\* The loop is over: setIsProcessing(false).
LoopDone ==
  /\ cpc = "loop"
  /\ ci \notin Files
  /\ isProcessing' = FALSE
  /\ cpc' = "idle"
  /\ UNCHANGED <<runLog, authenticated, files, closure, ci, awaiting, nextJob,
                 poller,
                 uploadVars, authVars>>

\* ----------------------------------------------------- pollUploadStatus
\* getUploadStatus answers with snapshot s: onUpdate(job) updates the file and
\* resolves the promise on a terminal snapshot; the poller stops, or arms its
\* timer with intervalMs.
PollResponse(k, s) ==
  /\ poller[k].ppc = "inflight"
  /\ files' = MapFile(poller[k].file,
                      [files[poller[k].file] EXCEPT
                         !.progress = s.video_progress,
                         !.status = FileStatus(s),
                         !.videoUrl = s.video_url,
                         !.error = s.error])
  /\ poller' = [poller EXCEPT ![k] =
                  IF ShouldStop(s)
                  THEN [@ EXCEPT !.active = FALSE, !.ppc = "off",
                                 !.updates = "terminal"]
                  ELSE [@ EXCEPT !.ppc = "timer", !.delay = IntervalMs,
                                 !.updates = IF Resolves(s) THEN "terminal"
                                             ELSE "running"]]
  /\ IF Resolves(s) /\ awaiting = k
     THEN /\ awaiting' = NoJob
          /\ ci' = ci + 1
          /\ cpc' = "loop"
     ELSE UNCHANGED <<awaiting, ci, cpc>>
  /\ UNCHANGED <<runLog, authenticated, isProcessing, closure, nextJob,
                 uploadVars, authVars>>

\* Mutant of PollTransportError: the poller gives up on the first error.
PollTransportErrorGivesUp(k) ==
  /\ poller[k].ppc = "inflight"
  /\ poller' = [poller EXCEPT ![k].ppc = "off", ![k].active = FALSE]
  /\ UNCHANGED <<runLog, authenticated, isProcessing, files, closure, cpc, ci,
                 awaiting, nextJob, uploadVars, authVars>>

\* getUploadStatus throws: the catch arms the timer with intervalMs * 2.
PollTransportError(k) ==
  /\ poller[k].ppc = "inflight"
  /\ poller' = [poller EXCEPT ![k].ppc = "timer", ![k].delay = IntervalMs * 2]
  /\ UNCHANGED <<runLog, authenticated, isProcessing, files, closure, cpc, ci,
                 awaiting, nextJob, uploadVars, authVars>>

\* The timer fires: poll() returns if the poller is not active, else it sends
\* the next status request.
TimerFires(k) ==
  /\ poller[k].ppc = "timer"
  /\ poller' = [poller EXCEPT ![k].ppc =
                  IF poller[k].active THEN "inflight" ELSE "off"]
  /\ UNCHANGED <<runLog, authenticated, isProcessing, files, closure, cpc, ci,
                 awaiting, nextJob, uploadVars, authVars>>

\* removeFile, offered by the list while the file's status is 'pending'. A
\* click is handled only while startUpload is not running or is suspended at
\* one of its awaits.
RemoveFile(f) ==
  /\ cpc \in {"idle", "submit", "polling"}
  /\ files[f].inQueue
  /\ files[f].status = "pending"
  /\ files' = [files EXCEPT ![f].inQueue = FALSE]
  /\ UNCHANGED <<runLog, authenticated, isProcessing, closure, cpc, ci, awaiting,
                 nextJob, poller, uploadVars, authVars>>

\* The function pollUploadStatus returned is called: active = false.
CancelPoller(k) ==
  /\ poller[k].file # 0
  /\ poller[k].active
  /\ poller' = [poller EXCEPT ![k].active = FALSE]
  /\ UNCHANGED <<runLog, authenticated, isProcessing, files, closure, cpc, ci,
                 awaiting, nextJob, uploadVars, authVars>>

ClientNext ==
  \/ StartUpload
  \/ LoopSkip
  \/ LoopSubmit
  \/ UploadAccepted
  \/ UploadRejected
  \/ LoopDone
  \/ \E k \in UploadIds, s \in StatusSnapshots : PollResponse(k, s)
  \/ \E k \in UploadIds : PollTransportError(k)
  \/ \E k \in UploadIds : TimerFires(k)

\* ------------------------------------------------------------ specifications
vars == <<uploadVars, authVars, clientVars>>

\* The uploader of the run has been constructed: each caller returned from
\* _authenticate with the valid credential its token file holds.
ConstructedCreds == [exists |-> TRUE, token |-> 1, expired |-> FALSE,
                     refresh_token |-> TRUE]

AuthConstructed ==
  /\ tokenFile = [p \in Profiles |-> ConstructedCreds]
  /\ secretsExist = TRUE
  /\ user_profile = [c \in Callers |-> "default"]
  /\ apc = [c \in Callers |-> "done"]
  /\ creds = [c \in Callers |-> ConstructedCreds]
  /\ loaded = [c \in Callers |-> ConstructedCreds]
  /\ result = [c \in Callers |-> ConstructedCreds]
  /\ refreshes = [c \in Callers |-> 0]
  /\ flows = [c \in Callers |-> 0]
  /\ saves = [c \in Callers |-> 0]
  /\ nextToken = 2

\* main() has not reached its loop: the uploader is still being constructed.
UploadNotStarted ==
  /\ pc = "construct"
  /\ cur = 1
  /\ size = [j \in Jobs |-> 1]
  /\ hasSub = [j \in Jobs |-> FALSE]
  /\ resumable_progress = [j \in Jobs |-> 0]
  /\ previous_progress = [j \in Jobs |-> 0]
  /\ req = [j \in Jobs |-> NoRange]
  /\ job = [j \in Jobs |-> NewJob]
  /\ upResult = [j \in Jobs |-> "none"]
  /\ capResult = [j \in Jobs |-> "none"]
  /\ lastFail = [j \in Jobs |-> NoRange]
  /\ progressLog = [j \in Jobs |-> <<>>]
  /\ cancelFlag = [j \in Jobs |-> FALSE]

\* The dashboard is not open.
ClientClosed ==
  /\ authenticated = FALSE
  /\ isProcessing = FALSE
  /\ files = [f \in Files |-> NewFile]
  /\ closure = [f \in Files |-> NewFile]
  /\ cpc = "closed"
  /\ ci = 1
  /\ awaiting = NoJob
  /\ nextJob = 1
  /\ poller = [k \in UploadIds |-> NoPoller]
  /\ runLog = <<>>

Init == UploadInit /\ AuthConstructed /\ ClientClosed
Next == UploadNext
Spec == Init /\ [][Next]_vars

\* The run of main() keeps taking steps; what the remote answers is not fair.
FairSpec == Spec /\ WF_vars(Next)

\* The run with a remote and a caption service that never fail.
CleanNext ==
  \/ StartVideo
  \/ MainReturns
  \/ SendChunk
  \/ ChunkAccepted
  \/ ChunkFinal(TRUE)
  \/ CaptionOk
  \/ \E j \in Jobs : DeleteJob(j)

CleanSpec == Init /\ [][CleanNext]_vars

\* The run, with clients that also delete jobs that are still uploading.
ControlNext ==
  \/ UploadNext
  \/ \E j \in Jobs : DeleteUploading(j)

ControlSpec == Init /\ [][ControlNext]_vars

\* The run, with deletes that arrive between a video's upload and its caption.
LateCancelNext ==
  \/ UploadNext
  \/ \E j \in Jobs : DeleteAfterUpload(j)

LateCancelSpec == Init /\ [][LateCancelNext]_vars

AuthSpecInit == AuthInit /\ UploadNotStarted /\ ClientClosed
AuthSpecNext == AuthNext
AuthSpec == AuthSpecInit /\ [][AuthSpecNext]_vars

\* Callers of _authenticate, with logouts of the profiles beside them.
LogoutNext ==
  \/ AuthNext
  \/ \E p \in Profiles : Logout(p)

LogoutSpec == AuthSpecInit /\ [][LogoutNext]_vars

\* main() from its start to its loop: the uploader is constructed while another
\* caller authenticates beside it.
RunNext ==
  \/ AuthNext
  \/ MainConstructed
  \/ MainConstructRaises
  \/ MainConstructExits

RunSpec == AuthSpecInit /\ [][RunNext]_vars

\* The dashboard against a backend that answers every request somehow.
ClientSpecInit == ClientInit /\ UploadNotStarted /\ AuthConstructed
ClientSpec == ClientSpecInit /\ [][ClientNext]_vars

\* The status answers of jobs that have ended.
TerminalSnapshots == {s \in StatusSnapshots : s.completed \/ s.error # ""}

\* The dashboard against a backend whose jobs have all ended by the time they
\* are polled: every status request is answered, with a terminal snapshot or
\* with an error; every enabled step is eventually taken.
SettledNext ==
  \/ StartUpload
  \/ LoopSkip
  \/ LoopSubmit
  \/ UploadAccepted
  \/ UploadRejected
  \/ LoopDone
  \/ \E k \in UploadIds, s \in TerminalSnapshots : PollResponse(k, s)
  \/ \E k \in UploadIds : PollTransportError(k)
  \/ \E k \in UploadIds : TimerFires(k)

SettledSpec == ClientSpecInit /\ [][SettledNext]_vars /\ WF_vars(SettledNext)

\* The dashboard, with a holder of the pollers' cancel functions calling them.
CancelNext ==
  \/ ClientNext
  \/ \E k \in UploadIds : CancelPoller(k)

CancelSpec == ClientSpecInit /\ [][CancelNext]_vars

\* The dashboard, with the user removing pending files from the list.
QueueNext ==
  \/ ClientNext
  \/ \E f \in Files : RemoveFile(f)

QueueSpec == ClientSpecInit /\ [][QueueNext]_vars

\* ============================================================= properties

\* ----------------------------------------------------------------------- C1
StatusEdge(a, b) ==
  \/ a = b
  \/ a = "PENDING" /\ b = "UPLOADING"
  \/ a = "UPLOADING" /\ b \in {"COMPLETED", "ERROR"}

C1_Step ==
  \A j \in Jobs :
    /\ StatusEdge(job[j].status, job'[j].status)
    /\ Terminal(job[j]) =>
         \/ job'[j] = job[j]
         \/ job'[j] = [job[j] EXCEPT !.present = FALSE]

\* C1: a job's status moves only PENDING -> UPLOADING, UPLOADING -> COMPLETED
\* and UPLOADING -> ERROR; a COMPLETED or ERROR job never changes again, except
\* that its record may be deleted.
C1_StatusTransitions == [][C1_Step]_vars

\* A run in which one job failed, another completed and was then deleted.
C1_Witness ==
  \E j, k \in Jobs :
    /\ job[j].status = "ERROR"
    /\ job[k].status = "COMPLETED" /\ ~job[k].present

\* ----------------------------------------------------------------------- C2
\* C2: in every reachable state, a job's error is non-empty exactly when its
\* status is ERROR.
C2_ErrorIffErrorStatus ==
  \A j \in Jobs : (job[j].error # "") <=> (job[j].status = "ERROR")

\* A COMPLETED job whose caption failed next to an ERROR job with its message.
C2_Witness ==
  \E j, k \in Jobs :
    /\ job[j].status = "COMPLETED" /\ capResult[j] = "http" /\ job[j].error = ""
    /\ job[k].status = "ERROR" /\ job[k].error = QuotaMsg

\* ----------------------------------------------------------------------- C3
C3_Inv ==
  \A j \in Jobs :
    /\ (job[j].videoId # NoId) <=> (upResult[j] = "id")
    /\ job[j].status = "COMPLETED" => job[j].videoId # NoId

C3_Step ==
  \A j \in Jobs : job[j].videoId # NoId => job'[j].videoId = job[j].videoId

\* C3: videoId is set at most once and never changes afterwards; it is set
\* exactly for the jobs whose video upload returned an id, so every COMPLETED
\* job has one and no job whose upload failed has one.
C3_VideoIdSetOnce == [](C3_Inv) /\ [][C3_Step]_vars

\* One job completed with its id, another ended without one.
C3_Witness ==
  \E j, k \in Jobs :
    /\ job[j].status = "COMPLETED" /\ job[j].videoId = RemoteId(j)
    /\ upResult[k] = "noid" /\ job[k].videoId = NoId

\* ----------------------------------------------------------------------- C4
C4_Inv ==
  \A j \in Jobs :
    /\ job[j].subtitleUploaded => job[j].videoId # NoId
    /\ ~hasSub[j] => ~job[j].subtitleUploaded

C4_Step ==
  \A j \in Jobs : job[j].subtitleUploaded => job'[j].subtitleUploaded

\* C4: subtitleUploaded implies videoId is set; it is set at most once and
\* stays false for a job without a subtitle.
C4_SubtitleNeedsVideo == [](C4_Inv) /\ [][C4_Step]_vars

\* A job with its subtitle attached, and a completed job that had none.
C4_Witness ==
  \E j, k \in Jobs :
    /\ job[j].subtitleUploaded /\ job[j].videoId # NoId
    /\ ~hasSub[k] /\ job[k].status = "COMPLETED"

\* ----------------------------------------------------------------------- C5
\* C5: whenever the caption request of a job whose video upload succeeded has
\* failed, the job is COMPLETED with subtitleUploaded = false.
C5_CaptionFailureNonFatal ==
  \A j \in Jobs :
    (upResult[j] = "id" /\ capResult[j] \in {"http", "exc"})
      => (job[j].status = "COMPLETED" /\ ~job[j].subtitleUploaded)

\* ----------------------------------------------------------------------- C6
C6_Step ==
  \A j \in Jobs :
    /\ previous_progress'[j] >= previous_progress[j]
    /\ VideoProgress(j)' >= VideoProgress(j)

\* C6: the byte count handed to the progress bar, and the percent derived
\* from it, never decrease, whatever chunks are retried.
C6_ProgressMonotone == [][C6_Step]_vars

\* A chunk is being retried after earlier chunks were acknowledged.
C6_Witness ==
  \E j \in Jobs :
    previous_progress[j] > 0 /\ lastFail[j] # NoRange /\ req[j] # NoRange

\* ----------------------------------------------------------------------- C7
\* C7: after a chunk request failed with a 5xx, the acknowledged offset is the
\* one the failed request started from, and the next chunk request carries the
\* failed request's byte range.
C7_RetrySameRange ==
  \A j \in Jobs :
    lastFail[j] # NoRange =>
      /\ resumable_progress[j] = lastFail[j][1]
      /\ req[j] # NoRange => req[j] = lastFail[j]

\* The retry of a failed chunk that is not the first one is in flight.
C7_Witness ==
  \E j \in Jobs :
    lastFail[j] # NoRange /\ req[j] = lastFail[j] /\ lastFail[j][1] > 0

\* ----------------------------------------------------------------------- C8
\* C8: once a chunk request has failed with 403, the run has exited, no chunk
\* request of the job is in flight, and the job is in ERROR with the quota
\* message.
C8_QuotaIsFatal ==
  \A j \in Jobs :
    upResult[j] = "quota" =>
      /\ pc = "exited"
      /\ req[j] = NoRange
      /\ job[j].status = "ERROR"
      /\ job[j].error = QuotaMsg

\* A 403 on a later chunk of the second video.
C8_Witness ==
  \E j \in Jobs :
    upResult[j] = "quota" /\ resumable_progress[j] > 0 /\ j > 1

\* ----------------------------------------------------------------------- C9
\* C9: every upload session that was started terminates with an outcome,
\* whatever the remote answers.
C9_SessionTerminates ==
  \A j \in Jobs :
    (job[j].status = "UPLOADING" /\ upResult[j] = "none")
      ~> (upResult[j] # "none")

\* ---------------------------------------------------------------------- C10
\* C10: a caller that found a credential with a non-expired access token in
\* its profile's token file returns that credential, having made no refresh
\* call, run no consent flow and written no token file.
C10_ValidReturnedUnchanged ==
  \A c \in Callers :
    (apc[c] # "start" /\ loaded[c].exists /\ loaded[c].token # 0
       /\ ~loaded[c].expired)
      => /\ apc[c] = "done"
         /\ result[c] = loaded[c]
         /\ refreshes[c] = 0 /\ flows[c] = 0 /\ saves[c] = 0

\* A caller returned a valid credential that carries a refresh token while
\* another caller of the same profile is past its load.
C10_Witness ==
  \E c, d \in Callers :
    /\ c # d /\ user_profile[c] = user_profile[d]
    /\ apc[c] = "done" /\ Valid(result[c]) /\ result[c].refresh_token
    /\ result[c] = tokenFile[user_profile[c]]
    /\ apc[d] = "done" /\ saves[c] = 0

\* ---------------------------------------------------------------------- C11
\* An expired credential that carries a refresh token.
Refreshable(cr) == cr.exists /\ cr.expired /\ cr.refresh_token

C11_Inv ==
  \A c \in Callers :
    Refreshable(loaded[c]) =>
      /\ apc[c] \notin {"start", "refresh"} => refreshes[c] = 1 /\ flows[c] = 0
      /\ apc[c] = "done" => saves[c] = 1 /\ Valid(result[c])

C11_Step ==
  \A c \in Callers :
    (Refreshable(loaded[c]) /\ apc[c] = "save" /\ apc'[c] = "done")
      => /\ result'[c] = creds[c]
         /\ tokenFile'[user_profile[c]] = result'[c]

\* C11: a caller that loaded an expired credential with a refresh token makes
\* exactly one refresh call, and at the moment it returns the token file of its
\* profile holds the credential it returns.
C11_OneRefreshPersisted == [](C11_Inv) /\ [][C11_Step]_vars

\* A caller has refreshed, saved and returned the new credential.
C11_Witness ==
  \E c \in Callers :
    /\ Refreshable(loaded[c]) /\ apc[c] = "done" /\ refreshes[c] = 1
    /\ result[c].token # loaded[c].token
    /\ tokenFile[user_profile[c]] = result[c]

\* ---------------------------------------------------------------------- C12
\* C12: two callers of one profile that both found the expired, refreshable
\* credential make at most one refresh call between them, are never both
\* inside refresh-and-save, and both end with the credential in the token file.
C12_RefreshSerialized ==
  \A c, d \in Callers :
    (c # d /\ user_profile[c] = user_profile[d]
       /\ Refreshable(loaded[c]) /\ Refreshable(loaded[d]))
      => /\ refreshes[c] + refreshes[d] <= 1
         /\ ~(apc[c] \in {"refresh", "save"} /\ apc[d] \in {"refresh", "save"})
         /\ (apc[c] = "done" /\ apc[d] = "done")
              => (result[c] = tokenFile[user_profile[c]]
                  /\ result[d] = tokenFile[user_profile[c]])

\* ---------------------------------------------------------------------- C13
\* C13: a caller whose profile has no token file never runs the consent flow
\* and never gets a credential to upload with.
C13_NoCredentialNoFlow ==
  \A c \in Callers :
    (apc[c] # "start" /\ ~loaded[c].exists)
      => (flows[c] = 0 /\ apc[c] \notin {"save", "done"})


\* C14: once a delete of an UPLOADING job has been acknowledged (its
\* cancellation flag is set and its record removed), no chunk request of that
\* job is started, and the job is never read back as a present record.
C14_Step ==
  \A j \in Jobs :
    cancelFlag[j] => /\ ~(req[j] = NoRange /\ req'[j] # NoRange)
                     /\ ~job'[j].present

C14_NoChunkAfterDelete == [][C14_Step]_vars

\* C16: a terminal job's snapshot is the same at every read until the job is
\* deleted, whatever the run does with the other jobs in between.
C16_Step ==
  \A j \in Jobs :
    (Terminal(job[j]) /\ job[j].present /\ job'[j].present)
      => Snapshot(j)' = Snapshot(j)

C16_TerminalSnapshotStable == [][C16_Step]_vars

\* A terminal job is still readable while the next video has sent chunks.
C16_Witness ==
  /\ Terminal(job[1]) /\ job[1].present
  /\ cur = 2 /\ previous_progress[2] > 0
  /\ previous_progress[1] # previous_progress[2]

\* C17: a job whose only failures were transient ones (its video upload
\* returned an id, its caption, if any, was attached) is COMPLETED with
\* progress at 100% and no error recorded.
C17_TransientNeverSurfaces ==
  \A j \in Jobs :
    (upResult[j] = "id" /\ (~hasSub[j] \/ capResult[j] = "ok"))
      => /\ job[j].status = "COMPLETED"
         /\ job[j].error = ""
         /\ VideoProgress(j) = 100

\* The byte counts chunkSize, 2 x chunkSize, ..., n x chunkSize.
ChunkMultiples(n) == [i \in 1..n |-> i * ChunkSize]

\* C18: a failure-free upload of n x ChunkSize bytes without subtitle has made
\* exactly n progress calls, with ChunkSize, ..., n x ChunkSize, when the job
\* is completed with its videoId set and subtitleUploaded false.
C18_ProgressPerChunk ==
  \A j \in Jobs :
    (upResult[j] = "id" /\ ~hasSub[j] /\ size[j] % ChunkSize = 0)
      => /\ progressLog[j] = ChunkMultiples(size[j] \div ChunkSize)
         /\ job[j].status = "COMPLETED"
         /\ job[j].videoId # NoId
         /\ ~job[j].subtitleUploaded

\* C19: at most one job is UPLOADING at a time (the loop drives one transfer),
\* and every submitted job has been dispatched by the time the run has ended:
\* none is left PENDING.
C19_BoundedDispatch ==
  /\ Cardinality({j \in Jobs : job[j].status = "UPLOADING"}) <= 1
  /\ pc \in {"finished", "exited", "crashed"}
       => \A j \in Jobs : job[j].status # "PENDING"

\* The caption request of job j has been issued.
CaptionIssued(j) == capResult[j] # "none" \/ (pc = "caption" /\ cur = j)

\* C20: a job's caption request is issued only once its video upload has
\* returned an id, never for a job whose upload failed or returned no id, and
\* from then on the job has no chunk request.
C20_Inv ==
  \A j \in Jobs :
    CaptionIssued(j) => /\ upResult[j] = "id"
                        /\ job[j].videoId = RemoteId(j)
                        /\ req[j] = NoRange

C20_Step ==
  \A j \in Jobs : CaptionIssued(j) => (CaptionIssued(j)' /\ req'[j] = NoRange)

C20_CaptionAfterVideo == [](C20_Inv) /\ [][C20_Step]_vars

\* The second video took more than one chunk, returned an id, and its caption
\* request failed; the run has moved on.
C20_Witness ==
  /\ capResult[2] = "http" /\ upResult[2] = "id"
  /\ size[2] > ChunkSize /\ previous_progress[2] > 0
  /\ pc = "loop"

\* pollUploadStatus has been called for job k.
PollerStarted(k) == poller[k].file # 0

\* C15: a started poller that has not yet delivered a terminal snapshot has a
\* status request in flight or its timer armed; once it has delivered one it
\* is off and stays as it is: no further request, no further onUpdate call.
C15_Inv ==
  \A k \in UploadIds :
    /\ (PollerStarted(k) /\ poller[k].updates # "terminal")
         => (poller[k].active /\ poller[k].ppc \in {"inflight", "timer"})
    /\ poller[k].updates = "terminal" => poller[k].ppc = "off"

C15_Step ==
  \A k \in UploadIds :
    poller[k].updates = "terminal" => poller'[k] = poller[k]

C15_PollUntilTerminal == [](C15_Inv) /\ [][C15_Step]_vars

\* The first job's poller has delivered its terminal snapshot and is off, while
\* the second job's poller waits on the doubled interval after a transport
\* error.
C15_Witness ==
  /\ poller[1].updates = "terminal" /\ poller[1].ppc = "off"
  /\ poller[1].delay = IntervalMs
  /\ poller[2].ppc = "timer" /\ poller[2].delay = IntervalMs * 2
  /\ poller[2].updates = "running"

\* C21: when the refresh of the run's expired credential has failed, no
\* credential is returned, every job of the run is in ERROR with the
\* login-required error, and no chunk request has been sent.
C21_RefreshFailureLoginRequired ==
  (/\ Refreshable(loaded[MainCaller])
   /\ apc[MainCaller] = "raised"
   /\ pc # "construct")
    => /\ result[MainCaller] = NoCreds
       /\ \A j \in Jobs : /\ req[j] = NoRange
                          /\ job[j].status = "ERROR"
                          /\ job[j].error = LoginRequiredMsg

\* C22: the acknowledged byte count of every upload session stays within
\* 0..totalBytes, and it changes only in the step that takes the remote's
\* acknowledgment of the chunk in flight: it becomes the end of that chunk, it
\* grows, and the step records no failure.
C22_Inv ==
  \A j \in Jobs : /\ resumable_progress[j] \in 0..size[j]
                  /\ previous_progress[j] \in 0..size[j]

C22_Step ==
  \A j \in Jobs :
    (resumable_progress'[j] # resumable_progress[j]
       \/ previous_progress'[j] # previous_progress[j])
      => /\ pc = "await" /\ cur = j /\ req[j] # NoRange
         /\ resumable_progress'[j] = req[j][2]
         /\ previous_progress'[j] = req[j][2]
         /\ resumable_progress'[j] > resumable_progress[j]
         /\ lastFail'[j] = NoRange
         /\ upResult'[j] = "none"
         /\ job'[j] = job[j]

C22_AcknowledgedBytes == [](C22_Inv) /\ [][C22_Step]_vars

\* A chunk has been acknowledged, and the next one has failed with a 5xx and
\* is about to be sent again.
C22_Witness ==
  /\ resumable_progress[1] = ChunkSize
  /\ previous_progress[1] = ChunkSize
  /\ lastFail[1] # NoRange
  /\ pc = "send" /\ cur = 1

\* C23: a profile whose credential is absent (never saved, or removed by a
\* logout) gets a persisted credential again only by a save of a credential
\* that came from the consent flow; a refresh that was already running does
\* not write one back.
C23_Step ==
  \A p \in Profiles :
    (~tokenFile[p].exists /\ tokenFile'[p].exists)
      => \E c \in Callers : /\ user_profile[c] = p
                            /\ apc[c] = "save" /\ apc'[c] = "done"
                            /\ flows[c] = 1 /\ refreshes[c] = 0

C23_AbsentUntilConsent == [][C23_Step]_vars

\* C24: a job whose cancellation flag was set after its video upload returned
\* an id and before its caption call gets no caption request, and it is in
\* ERROR (with its videoId) once the run has left it.
C24_Step ==
  \A j \in Jobs :
    (cancelFlag[j] /\ capResult[j] = "none")
      => /\ capResult'[j] = "none"
         /\ (cur'  # j => /\ job'[j].status = "ERROR"
                          /\ job'[j].videoId = RemoteId(j))

C24_CancelBeforeCaption == [][C24_Step]_vars

\* The step in which poller k calls onUpdate: its request in flight is answered
\* and the poller stops or arms its timer with intervalMs.
OnUpdateCalled(k) ==
  /\ poller[k].ppc = "inflight"
  /\ \/ poller'[k].ppc = "off"
     \/ poller'[k].ppc = "timer" /\ poller'[k].delay = IntervalMs

\* C25: a poller that is no longer active (its cancel function was called, or
\* it stopped itself) makes no onUpdate call and starts no status request, also
\* when it was cancelled with a request in flight.
C25_Step ==
  \A k \in UploadIds :
    (PollerStarted(k) /\ ~poller[k].active)
      => /\ ~OnUpdateCalled(k)
         /\ ~(poller[k].ppc # "inflight" /\ poller'[k].ppc = "inflight")

C25_CancelStopsPoller == [][C25_Step]_vars

\* The jobs the dashboard has submitted and not yet seen end.
Outstanding ==
  {k \in UploadIds : PollerStarted(k) /\ poller[k].updates # "terminal"}

\* C26: the dashboard has at most one job outstanding; while an upload request
\* is being sent none is, and every file before the one being submitted was
\* skipped as completed, failed at its upload request, or had a terminal
\* snapshot delivered.
C26_Inv ==
  /\ Cardinality(Outstanding) <= 1
  /\ cpc = "polling" => Outstanding = {awaiting}
  /\ cpc # "polling" => Outstanding = {}
  /\ cpc = "submit" =>
       \A f \in Files :
         f < ci => \/ closure[f].status = "completed"
                   \/ files[f].status \in {"completed", "error"}

C26_Step ==
  (cpc # "submit" /\ cpc' = "submit") => (Outstanding = {} /\ cpc = "loop")

C26_OneJobOutstanding == [](C26_Inv) /\ [][C26_Step]_vars

\* The second file's upload request is being sent after the first file's
\* poller delivered an error snapshot.
C26_Witness ==
  /\ cpc = "submit" /\ ci = 2
  /\ poller[1].file = 1 /\ poller[1].updates = "terminal"
  /\ files[1].status = "error"

\* C27: every startUpload run finishes: isProcessing, once set, is reset.
C27_RunFinishes == isProcessing ~> ~isProcessing

\* C28: when a status request of poller k is answered, either the poller stops
\* on a terminal snapshot, or it waits intervalMs after a non-terminal snapshot
\* it delivered, or it waits 2 x intervalMs after a transport error, which
\* leaves the poller active and calls nothing: files, delivered snapshots and
\* the awaited promise are as before.
C28_Step ==
  \A k \in UploadIds :
    (poller[k].ppc = "inflight" /\ poller'[k].ppc # "inflight")
      => \/ /\ poller'[k].ppc = "off"
            /\ poller'[k].updates = "terminal"
         \/ /\ poller'[k].ppc = "timer"
            /\ poller'[k].delay = IntervalMs
            /\ poller'[k].updates = "running"
            /\ poller'[k].active
         \/ /\ poller'[k].ppc = "timer"
            /\ poller'[k].delay = IntervalMs * 2
            /\ poller'[k].updates = poller[k].updates
            /\ poller'[k].active
            /\ files' = files
            /\ awaiting' = awaiting

C28_Inv ==
  \A k \in UploadIds :
    poller[k].ppc = "timer" => poller[k].delay \in {IntervalMs, IntervalMs * 2}

C28_PollDelays == [](C28_Inv) /\ [][C28_Step]_vars

\* The first poller has delivered a non-terminal snapshot, its next request
\* failed, and the request after that is in flight.
C28_Witness ==
  /\ poller[1].ppc = "inflight"
  /\ poller[1].delay = IntervalMs * 2
  /\ poller[1].updates = "running"
  /\ poller[1].active

\* C29: once a chunk request of a job has failed with another HTTP status or
\* with a local exception, the run has ended at that job, no chunk request of
\* it is in flight or sent later, and the job is in ERROR with the message of
\* that kind of failure.
C29_Inv ==
  \A j \in Jobs :
    upResult[j] \in {"remote", "local"} =>
      /\ pc \in {"crashed", "exited"} /\ cur = j
      /\ req[j] = NoRange
      /\ job[j].status = "ERROR"
      /\ job[j].error = (IF upResult[j] = "remote" THEN HttpMsg
                         ELSE UnexpectedMsg)

C29_Step ==
  \A j \in Jobs :
    upResult[j] \in {"remote", "local"} =>
      /\ req'[j] = NoRange
      /\ upResult'[j] = upResult[j]
      /\ resumable_progress'[j] = resumable_progress[j]
      /\ job'[j].status = "ERROR" /\ job'[j].error = job[j].error

C29_OtherFailureIsFatal == [](C29_Inv) /\ [][C29_Step]_vars

\* The second video's upload died of an HTTP error after a chunk had been
\* acknowledged, and the first video's job has been deleted since.
C29_Witness ==
  /\ upResult[2] = "remote" /\ resumable_progress[2] > 0
  /\ pc = "crashed"
  /\ ~job[1].present

\* C30: no upload request is sent for a file that has been removed from the
\* queue, also when it was removed while a run was already going through the
\* list.
C30_Step ==
  \A f \in Files :
    ~files[f].inQueue => ~(cpc = "loop" /\ cpc' = "submit" /\ ci = f)

C30_RemovedNeverSubmitted == [][C30_Step]_vars

\* The run has been at file f: the loop is past it, or is awaiting its upload
\* request or its poller.
RunReached(f) == f < ci \/ (f = ci /\ cpc \in {"submit", "polling"})

\* File f was in the list and not completed when the run started, and the run
\* has been at it.
DueInRun(f) ==
  closure[f].inQueue /\ closure[f].status # "completed" /\ RunReached(f)

\* C31: the files a run has submitted are exactly those that were not completed
\* when it started and that it has reached, each once, in list order; no
\* upload request is sent for a file whose status is completed, in any run.
C31_Inv ==
  /\ runLog = SelectSeq([f \in Files |-> f], DueInRun)
  /\ \A f \in Files :
       (files[f].status = "completed" /\ RunReached(f) /\ cpc # "idle")
         => closure[f].status = "completed" \/ files[f].jobId # NoJob

C31_Step ==
  (cpc = "loop" /\ cpc' = "submit")
    => /\ files[ci].status # "completed"
       /\ runLog' = Append(runLog, ci)

C31_SubmittedOncePerRun == [](C31_Inv) /\ [][C31_Step]_vars

\* A second run: the first file was completed by the first run and is skipped,
\* the second file failed at its upload request then and is submitted again.
C31_Witness ==
  /\ closure[1].status = "completed" /\ closure[2].status = "error"
  /\ runLog = <<2>> /\ cpc = "polling"
  /\ files[1].status = "completed"

====
